---- MODULE Spec2Model ----
(***************************************************************************)
(* Model of utils/mermaid_formatter.py: the label sanitizer, the flowchart *)
(* generator, the validator and the fixer.  A text is a sequence of        *)
(* one-character strings; the regular expressions and the str methods are  *)
(* modelled by what they compute on such sequences.                        *)
(***************************************************************************)
EXTENDS Integers, Sequences, FiniteSets, TLC

VARIABLES
    pc,          \* the position in the function that is running
    input,       \* the text the function was called with
    text,        \* the local text of the function, in the end its result
    passes,      \* iterations of the while loop of clean_node_labels so far
    errors,      \* the list validate_mermaid_syntax returns
    nodes,       \* the nodes given to format_flowchart
    connections  \* the connections given to format_flowchart

vars == <<pc, input, text, passes, errors, nodes, connections>>

(***************************************************************************)
(* Bounds of the model.                                                    *)
(***************************************************************************)
MaxCleanFrags == 5
MaxFixFrags == 4
MaxValFrags == 4
MaxNodes == 2
MaxConns == 2

(***************************************************************************)
(* Literals of the source.                                                 *)
(***************************************************************************)
NL == "\n"
SP == " "
DQ == "\""
\* the backtick character (the lexer of TLA+ has no backtick in strings)
BT == "backtick"
Fence == <<BT, BT, BT>>
Mermaid == <<"m", "e", "r", "m", "a", "i", "d">>
FenceOpener == Fence \o Mermaid
FenceOpenerNL == FenceOpener \o <<NL>>
LabelOpen == <<"[", DQ>>
LabelClose == <<DQ, "]">>
ListOpen == <<"L", "i", "s", "t", "~">>
SequenceHeader == <<"s", "e", "q", "u", "e", "n", "c", "e", "D", "i", "a", "g", "r", "a", "m">>
Participant == <<"p", "a", "r", "t", "i", "c", "i", "p", "a", "n", "t">>
Arrow == <<"-", ">">>
ArrowAsync == <<"-", ">", ">">>
FlowHeader == <<"f", "l", "o", "w", "c", "h", "a", "r", "t", " ", "T", "D">>
Indent == <<" ", " ", " ", " ">>
\* the three backticks of this message are spelled out
MsgMissingFence == "Missing closing (three backticks) for mermaid block"
MsgLineBreaks == "Line breaks found in node labels - use spaces instead"
MsgNoInteractions == "Sequence diagram has participants but no interactions"

(***************************************************************************)
(* str primitives.                                                         *)
(***************************************************************************)
\* t[i:].startswith(p), positions counted from 1
StartsWithAt(t, i, p) ==
    /\ i + Len(p) - 1 <= Len(t)
    /\ \A k \in 1..Len(p) : t[i + k - 1] = p[k]

\* p in t
Contains(t, p) == \E i \in 1..(Len(t) - Len(p) + 1) : StartsWithAt(t, i, p)

\* t.startswith(p)
StartsWith(t, p) == StartsWithAt(t, 1, p)

\* the number of line breaks of t
CountNL(t) == Cardinality({i \in 1..Len(t) : t[i] = NL})

\* the characters str.strip() removes
IsSpace(c) == c \in {" ", "\n", "\t", "\r"}

\* t.strip()
Strip(t) ==
    LET keep == {i \in 1..Len(t) : ~IsSpace(t[i])}
    IN  IF keep = {} THEN <<>>
        ELSE LET lo == CHOOSE i \in keep : \A j \in keep : i <= j
                 hi == CHOOSE i \in keep : \A j \in keep : j <= i
             IN  SubSeq(t, lo, hi)

RECURSIVE ReplaceFrom(_, _, _, _)
ReplaceFrom(t, i, old, new) ==
    IF i > Len(t) THEN <<>>
    ELSE IF StartsWithAt(t, i, old)
         THEN new \o ReplaceFrom(t, i + Len(old), old, new)
         ELSE <<t[i]>> \o ReplaceFrom(t, i + 1, old, new)

RECURSIVE ReplaceOnceFrom(_, _, _, _)
ReplaceOnceFrom(t, i, old, new) ==
    IF i > Len(t) THEN <<>>
    ELSE IF StartsWithAt(t, i, old)
         THEN new \o SubSeq(t, i + Len(old), Len(t))
         ELSE <<t[i]>> \o ReplaceOnceFrom(t, i + 1, old, new)

\* a variant of Replace: only the first occurrence, as t.replace(old, new, 1)
ReplaceOnce(t, old, new) == ReplaceOnceFrom(t, 1, old, new)

\* t.replace(old, new): leftmost, non-overlapping occurrences
Replace(t, old, new) == ReplaceFrom(t, 1, old, new)

(***************************************************************************)
(* The label pattern of lines 24 and 29: bracket, quote, a lazy group of   *)
(* non-quote characters, a line break, a second such group, quote, bracket *)
(***************************************************************************)
\* all ways the pattern matches at i: <<a, b>> with the \n at a and the
\* closing quote and bracket at b, b+1
LabelMatches(t, i) ==
    IF ~StartsWithAt(t, i, LabelOpen) THEN {}
    ELSE {m \in ((i + 2)..Len(t)) \X ((i + 3)..(Len(t) - 1)) :
            /\ m[1] < m[2]
            /\ t[m[1]] = NL
            /\ \A k \in (i + 2)..(m[1] - 1) : t[k] # DQ
            /\ \A k \in (m[1] + 1)..(m[2] - 1) : t[k] # DQ
            /\ StartsWithAt(t, m[2], LabelClose)}

\* the match the engine reports at i: both groups are lazy, the first
\* group is tried before the second
LabelMatch(t, i) ==
    LET ms == LabelMatches(t, i)
        a  == CHOOSE x \in {m[1] : m \in ms} : \A m \in ms : x <= m[1]
        b  == CHOOSE y \in {m[2] : m \in {n \in ms : n[1] = a}} :
                 \A m \in {n \in ms : n[1] = a} : y <= m[2]
    IN  <<a, b>>

\* a variant of SearchLabel: anchored at the start, as re.match
MatchLabel(t) == LabelMatches(t, 1) # {}

\* re.search(pattern, t)
SearchLabel(t) == \E i \in 1..Len(t) : LabelMatches(t, i) # {}

\* a variant of LabelReplacement: the groups joined without the space
LabelReplacementNoSpace(t, i, m) ==
    LabelOpen \o SubSeq(t, i + 2, m[1] - 1)
              \o SubSeq(t, m[1] + 1, m[2] - 1) \o LabelClose

\* the replacement of one match: group 1, a space, group 2, in the brackets
LabelReplacement(t, i, m) ==
    LabelOpen \o SubSeq(t, i + 2, m[1] - 1) \o <<SP>>
              \o SubSeq(t, m[1] + 1, m[2] - 1) \o LabelClose

RECURSIVE SubLabelsFrom(_, _)
SubLabelsFrom(t, i) ==
    IF i > Len(t) THEN <<>>
    ELSE IF LabelMatches(t, i) # {}
         THEN LET m == LabelMatch(t, i)
              IN  LabelReplacement(t, i, m) \o SubLabelsFrom(t, m[2] + 2)
         ELSE <<t[i]>> \o SubLabelsFrom(t, i + 1)

\* re.sub(pattern, replacement, t): one pass over the text
SubLabels(t) == SubLabelsFrom(t, 1)

\* a variant of LoopCondition: the loop never runs
LoopConditionNever(t) == FALSE

\* the test of the while loop
LoopCondition(t) == SearchLabel(t)

\* a variant of clean_node_labels: the first substitution only
CleanOnePass(t) == SubLabels(t)

RECURSIVE CleanLoop(_)
CleanLoop(t) == IF LoopCondition(t) THEN CleanLoop(SubLabels(t)) ELSE t

\* clean_node_labels(t) as a function
clean_node_labels(t) == CleanLoop(SubLabels(t))

(***************************************************************************)
(* The generic-type pattern of line 196: List~ , a greedy group of one or  *)
(* more characters other than ~ , and a closing ~                          *)
(***************************************************************************)
\* all ways the pattern matches at i: the position of the closing ~
GenericMatches(t, i) ==
    IF ~StartsWithAt(t, i, ListOpen) THEN {}
    ELSE {e \in (i + 6)..Len(t) :
            /\ t[e] = "~"
            /\ \A k \in (i + 5)..(e - 1) : t[k] # "~"}

\* the match the engine reports at i: the group is greedy
GenericMatch(t, i) ==
    CHOOSE e \in GenericMatches(t, i) : \A f \in GenericMatches(t, i) : f <= e

\* the replacement of one match: List< , group 1, >
GenericReplacement(t, i, e) ==
    <<"L", "i", "s", "t", "<">> \o SubSeq(t, i + 5, e - 1) \o <<">">>

RECURSIVE SubGenericFrom(_, _)
SubGenericFrom(t, i) ==
    IF i > Len(t) THEN <<>>
    ELSE IF GenericMatches(t, i) # {}
         THEN LET e == GenericMatch(t, i)
              IN  GenericReplacement(t, i, e) \o SubGenericFrom(t, e + 1)
         ELSE <<t[i]>> \o SubGenericFrom(t, i + 1)

RECURSIVE SubGenericOnceFrom(_, _)
SubGenericOnceFrom(t, i) ==
    IF i > Len(t) THEN <<>>
    ELSE IF GenericMatches(t, i) # {}
         THEN LET e == GenericMatch(t, i)
              IN  GenericReplacement(t, i, e) \o SubSeq(t, e + 1, Len(t))
         ELSE <<t[i]>> \o SubGenericOnceFrom(t, i + 1)

\* a variant of SubGeneric: only the first match, as re.sub with count=1
SubGenericOnce(t) == SubGenericOnceFrom(t, 1)

\* re.sub of line 196
SubGeneric(t) == SubGenericFrom(t, 1)

\* a variant of RemoveFences: the opener only
RemoveOpenerOnly(t) == Replace(t, FenceOpenerNL, <<>>)

\* line 190
RemoveFences(t) == Replace(Replace(t, FenceOpenerNL, <<>>), Fence, <<>>)

\* fix_common_issues(t)
fix_common_issues(t) == Strip(SubGeneric(clean_node_labels(RemoveFences(t))))

(***************************************************************************)
(* validate_mermaid_syntax                                                 *)
(***************************************************************************)
RECURSIVE SplitFrom(_, _, _, _)
SplitFrom(t, i, cur, sep) ==
    IF i > Len(t) THEN <<cur>>
    ELSE IF StartsWithAt(t, i, sep)
         THEN <<cur>> \o SplitFrom(t, i + Len(sep), <<>>, sep)
         ELSE SplitFrom(t, i + 1, Append(cur, t[i]), sep)

\* t.split(sep)
Split(t, sep) == SplitFrom(t, 1, <<>>, sep)

\* the segment the fence check looks at: split(opener)[1]
AfterOpener(t) == Split(t, FenceOpener)[2]

\* line 160
MissingFence(t) == Contains(t, FenceOpener) /\ ~Contains(AfterOpener(t), Fence)

\* line 164
LineBreakInLabel(t) == SearchLabel(t)

\* a variant of participant_count: the lines are not stripped
participant_count_raw(lines) ==
    Cardinality({i \in 1..Len(lines) : StartsWith(lines[i], Participant)})

\* line 170
participant_count(lines) ==
    Cardinality({i \in 1..Len(lines) : StartsWith(Strip(lines[i]), Participant)})

\* line 171
interaction_count(lines) ==
    Cardinality({i \in 1..Len(lines) :
                    Contains(lines[i], ArrowAsync) \/ Contains(lines[i], Arrow)})

\* lines 168-173
NoInteractions(t) ==
    /\ Contains(t, SequenceHeader)
    /\ LET lines == Split(t, <<NL>>)
       IN  participant_count(lines) > 0 /\ interaction_count(lines) = 0

\* validate_mermaid_syntax(t): the diagnostics, in order
validate_mermaid_syntax(t) ==
    (IF MissingFence(t) THEN <<MsgMissingFence>> ELSE <<>>)
    \o (IF LineBreakInLabel(t) THEN <<MsgLineBreaks>> ELSE <<>>)
    \o (IF NoInteractions(t) THEN <<MsgNoInteractions>> ELSE <<>>)

(***************************************************************************)
(* format_flowchart                                                        *)
(***************************************************************************)
RECURSIVE Join(_, _)
\* sep.join(lines), the first k lines
Join(lines, k) ==
    IF k = 0 THEN <<>>
    ELSE IF k = 1 THEN lines[1]
    ELSE Join(lines, k - 1) \o <<NL>> \o lines[k]

\* line 52
NodeLabel(node) == Strip(Replace(node.label, <<NL>>, <<SP>>))

\* lines 51-64
NodeLine(node) ==
    LET label == NodeLabel(node)
    IN  IF node.type = "process"
        THEN Indent \o node.id \o <<"(", DQ>> \o label \o <<DQ, ")">>
        ELSE IF node.type = "decision"
        THEN Indent \o node.id \o <<"{">> \o label \o <<"}">>
        ELSE Indent \o node.id \o LabelOpen \o label \o LabelClose

\* lines 68-75
ConnLine(conn) ==
    IF conn.label # <<>>
    THEN Indent \o conn.from \o <<" ", "-", "-", " ", DQ>> \o conn.label
                \o <<DQ, " ", "-", "-", ">", " ">> \o conn.to
    ELSE Indent \o conn.from \o <<" ", "-", "-", ">", " ">> \o conn.to

\* the list of lines built by lines 47-75
FlowLines(ns, cs) ==
    <<FlowHeader>> \o [i \in 1..Len(ns) |-> NodeLine(ns[i])]
                   \o [i \in 1..Len(cs) |-> ConnLine(cs[i])]

\* format_flowchart(nodes, connections)
format_flowchart(ns, cs) == Join(FlowLines(ns, cs), Len(FlowLines(ns, cs)))

(***************************************************************************)
(* Input texts: concatenations of a few fragments.                         *)
(***************************************************************************)
RECURSIVE Concat(_, _)
Concat(fs, k) == IF k = 0 THEN <<>> ELSE Concat(fs, k - 1) \o fs[k]

Texts(frags, n) ==
    {Concat(fs, Len(fs)) : fs \in UNION {[1..k -> frags] : k \in 0..n}}

CleanFrags == {LabelOpen, LabelClose, <<NL>>, <<"a">>, <<DQ>>, <<"[">>, <<"]">>}

(***************************************************************************)
(* clean_node_labels, one step per substitution pass.                      *)
(***************************************************************************)
InitClean ==
    /\ input \in Texts(CleanFrags, MaxCleanFrags)
    /\ text = input
    /\ pc = "sub"
    /\ passes = 0
    /\ errors = <<>>
    /\ nodes = <<>>
    /\ connections = <<>>

\* line 26
FirstSub ==
    /\ pc = "sub"
    /\ text' = SubLabels(text)
    /\ pc' = "while"
    /\ UNCHANGED <<input, passes, errors, nodes, connections>>

\* lines 30-31, the condition holds
LoopPass ==
    /\ pc = "while"
    /\ LoopCondition(text)
    /\ text' = SubLabels(text)
    /\ passes' = passes + 1
    /\ UNCHANGED <<pc, input, errors, nodes, connections>>

\* line 30, the condition fails; line 33
LoopExit ==
    /\ pc = "while"
    /\ ~LoopCondition(text)
    /\ pc' = "return"
    /\ UNCHANGED <<input, text, passes, errors, nodes, connections>>

NextClean == FirstSub \/ LoopPass \/ LoopExit

SpecClean == InitClean /\ [][NextClean]_vars

FairSpecClean == SpecClean /\ WF_vars(NextClean)

(***************************************************************************)
(* fix_common_issues, followed by the validator.                           *)
(***************************************************************************)
FixFrags == {Fence, <<BT>>, FenceOpenerNL, LabelOpen, LabelClose, <<NL>>,
             <<SP>>, ListOpen, <<"~">>, <<"a">>}

InitFix ==
    /\ input \in Texts(FixFrags, MaxFixFrags)
    /\ text = input
    /\ pc = "fix"
    /\ passes = 0
    /\ errors = <<>>
    /\ nodes = <<>>
    /\ connections = <<>>

\* lines 190-201
Fix ==
    /\ pc = "fix"
    /\ text' = fix_common_issues(text)
    /\ pc' = "validate"
    /\ UNCHANGED <<input, passes, errors, nodes, connections>>

\* lines 157-176
Validate ==
    /\ pc = "validate"
    /\ errors' = validate_mermaid_syntax(text)
    /\ pc' = "done"
    /\ UNCHANGED <<input, text, passes, nodes, connections>>

NextFix == Fix \/ Validate

SpecFix == InitFix /\ [][NextFix]_vars

(***************************************************************************)
(* validate_mermaid_syntax on its own.                                     *)
(***************************************************************************)
ValFrags == {FenceOpener, Fence, SequenceHeader, Participant, Arrow, <<">">>,
             <<NL>>, <<SP>>, <<"a">>, LabelOpen, LabelClose}

InitValidate ==
    /\ input \in Texts(ValFrags, MaxValFrags)
    /\ text = input
    /\ pc = "validate"
    /\ passes = 0
    /\ errors = <<>>
    /\ nodes = <<>>
    /\ connections = <<>>

NextValidate == Validate

SpecValidate == InitValidate /\ [][NextValidate]_vars

(***************************************************************************)
(* format_flowchart                                                        *)
(***************************************************************************)
NodeTypes == {"start", "end", "process", "decision", "default", "other"}

NodeLabels == {<<"a">>, <<"a", NL, "b">>, <<SP, "a", NL>>}

ConnLabels == {<<>>, <<"g", "o">>, <<"g", NL, "o">>}

Nodes == [id : {<<"A">>, <<"B">>}, label : NodeLabels, type : NodeTypes]

Connections == [from : {<<"A">>}, to : {<<"B">>}, label : ConnLabels]

SeqsUpTo(S, n) == UNION {[1..k -> S] : k \in 0..n}

InitFlow ==
    /\ nodes \in SeqsUpTo(Nodes, MaxNodes)
    /\ connections \in SeqsUpTo(Connections, MaxConns)
    /\ input = <<>>
    /\ text = <<>>
    /\ pc = "flow"
    /\ passes = 0
    /\ errors = <<>>

\* lines 47-77
FormatFlowchart ==
    /\ pc = "flow"
    /\ text' = format_flowchart(nodes, connections)
    /\ pc' = "done"
    /\ UNCHANGED <<input, passes, errors, nodes, connections>>

NextFlow == FormatFlowchart

SpecFlow == InitFlow /\ [][NextFlow]_vars

(***************************************************************************)
(* Vocabulary of the properties, stated on the text alone.                 *)
(***************************************************************************)
\* positions i..j+1 hold a label span: bracket-quote, no quote inside,
\* quote-bracket
IsLabelSpan(t, i, j) ==
    /\ i + 1 < j
    /\ j + 1 <= Len(t)
    /\ t[i] = "[" /\ t[i + 1] = DQ
    /\ t[j] = DQ /\ t[j + 1] = "]"
    /\ \A k \in (i + 2)..(j - 1) : t[k] # DQ

\* position k is a line break inside a label span
InBrokenLabel(t, k) ==
    /\ t[k] = NL
    /\ \E i \in 1..k, j \in k..Len(t) : i + 1 < k /\ k < j /\ IsLabelSpan(t, i, j)

\* some label span of t has a line break inside it
HasBrokenLabel(t) == \E k \in 1..Len(t) : InBrokenLabel(t, k)

\* t has no leading and no trailing whitespace
IsTrimmed(t) == t = <<>> \/ (~IsSpace(t[1]) /\ ~IsSpace(t[Len(t)]))

\* t holds a marker: List~ , one or more characters other than ~ , and ~
HasMarker(t) ==
    \E i \in 1..Len(t), e \in 1..Len(t) :
        /\ StartsWithAt(t, i, ListOpen)
        /\ i + 5 < e
        /\ t[e] = "~"
        /\ \A k \in (i + 5)..(e - 1) : t[k] # "~"

\* some line of t, trimmed, starts with the word participant
HasParticipantLine(t) ==
    \E s \in 1..Len(t), i \in 1..Len(t) :
        /\ s <= i
        /\ (s = 1 \/ t[s - 1] = NL)
        /\ \A k \in s..(i - 1) : IsSpace(t[k]) /\ t[k] # NL
        /\ StartsWithAt(t, i, Participant)

\* a closing fence token (three backticks that do not start another opener)
\* occurs after the first opener of t
FenceAfterFirstOpener(t) ==
    LET first == CHOOSE i \in 1..Len(t) :
                    /\ StartsWithAt(t, i, FenceOpener)
                    /\ \A j \in 1..(i - 1) : ~StartsWithAt(t, j, FenceOpener)
    IN  \E j \in (first + Len(FenceOpener))..Len(t) :
            StartsWithAt(t, j, Fence) /\ ~StartsWithAt(t, j, FenceOpener)

\* m is one of the diagnostics of es
Reported(es, m) == \E i \in 1..Len(es) : es[i] = m

(***************************************************************************)
(* Properties.                                                             *)
(***************************************************************************)

\* C1: the result of clean_node_labels is a fixed point of clean_node_labels
\* and holds no label span with a line break inside it.
C1_CleanIdempotent ==
    pc = "return" =>
        /\ clean_node_labels(text) = text
        /\ ~HasBrokenLabel(text)

\* a label with two line breaks was cleaned in more than one pass
C1_Witness ==
    /\ pc = "return"
    /\ passes >= 1
    /\ HasBrokenLabel(input)
    /\ text # input

\* C2: the result of fix_common_issues is a fixed point of fix_common_issues.
C2_FixIdempotent == pc # "fix" => fix_common_issues(text) = text

\* a fence token and a marker were removed from a text and something is left
C2_Witness ==
    /\ pc = "validate"
    /\ Contains(input, Fence)
    /\ HasMarker(input)
    /\ text # <<>>
    /\ text # input

\* C3: the result of fix_common_issues holds no fence token, no label span
\* with a line break inside it and no leading or trailing whitespace.
C3_FixClean ==
    pc # "fix" =>
        /\ ~Contains(text, Fence)
        /\ ~HasBrokenLabel(text)
        /\ IsTrimmed(text)

\* the input had a fence token, a broken label left after the fence removal
\* and whitespace at an end
C3_Witness ==
    /\ pc = "validate"
    /\ Contains(input, Fence)
    /\ HasBrokenLabel(RemoveFences(input))
    /\ ~IsTrimmed(input)
    /\ text # <<>>

\* C4: the output of format_flowchart, split into lines, is the header, then
\* one line per node in input order, then one line per connection in input
\* order: 1 + number of nodes + number of connections lines.
C4_OneLinePerItem ==
    pc = "done" =>
        LET lines == Split(text, <<NL>>)
        IN  /\ Len(lines) = 1 + Len(nodes) + Len(connections)
            /\ lines[1] = FlowHeader
            /\ \A i \in 1..Len(nodes) :
                  StartsWith(lines[1 + i], Indent \o nodes[i].id)
            /\ \A i \in 1..Len(connections) :
                  StartsWith(lines[1 + Len(nodes) + i], Indent \o connections[i].from)

\* C5: the missing-fence diagnostic is reported exactly when the text holds
\* an opener and no closing fence token occurs after the first opener.
C5_MissingFenceExact ==
    pc = "done" =>
        (Reported(errors, MsgMissingFence)
            <=> (Contains(text, FenceOpener) /\ ~FenceAfterFirstOpener(text)))

\* C6: a text with the sequenceDiagram header, a participant line, no arrow
\* token, no fence opener and no broken label gets exactly the diagnostic
\* about missing interactions; a text without the header never gets it.
C6_NoInteractions ==
    pc = "done" =>
        /\ ( /\ Contains(text, SequenceHeader)
             /\ HasParticipantLine(text)
             /\ ~Contains(text, Arrow)
             /\ ~Contains(text, FenceOpener)
             /\ ~HasBrokenLabel(text)
             => errors = <<MsgNoInteractions>> )
        /\ (~Contains(text, SequenceHeader) => ~Reported(errors, MsgNoInteractions))

\* the validator reported the missing interactions, and nothing else, for a
\* text with an indented participant line
C6_Witness ==
    /\ pc = "done"
    /\ errors = <<MsgNoInteractions>>
    /\ HasParticipantLine(text)
    /\ ~Contains(text, <<NL>> \o Participant)
    /\ ~StartsWith(text, Participant)

C8_Terminates ==
    /\ [][(LoopPass \/ (FirstSub /\ HasBrokenLabel(text)))
            => CountNL(text') < CountNL(text)]_vars
    /\ [](passes + CountNL(text) <= CountNL(input))
    /\ [][LoopPass => HasBrokenLabel(text)]_vars
    /\ [][LoopExit => ~HasBrokenLabel(text)]_vars
    /\ <>(pc = "return")

\* the loop ran two passes and the function returned
C8_Witness ==
    /\ pc = "return"
    /\ passes >= 2

\* C9: the validator reports neither the missing fence nor the line breaks
\* in labels on a result of fix_common_issues.
C9_FixedPassesChecks ==
    pc = "done" =>
        /\ ~Reported(errors, MsgMissingFence)
        /\ ~Reported(errors, MsgLineBreaks)

\* the validator would have reported both defects on the input
C9_Witness ==
    /\ pc = "done"
    /\ MissingFence(input)
    /\ HasBrokenLabel(input)
    /\ text # <<>>

\* C10: the result of clean_node_labels has the length of the input and
\* differs from it only where a line break became a space; a text without a
\* broken label is unchanged; a line break outside the label spans is kept.
C10_OnlyLabelBreaks ==
    pc = "return" =>
        /\ Len(text) = Len(input)
        /\ \A k \in 1..Len(input) :
              \/ text[k] = input[k]
              \/ (input[k] = NL /\ text[k] = SP)
        /\ (~HasBrokenLabel(input) => text = input)
        /\ \A k \in 1..Len(input) :
              (input[k] = NL /\ ~InBrokenLabel(input, k)) => text[k] = NL

\* one line break became a space and another one, outside the label, stayed
C10_Witness ==
    /\ pc = "return"
    /\ \E k \in 1..Len(input) : input[k] = NL /\ text[k] = SP
    /\ \E k \in 1..Len(input) : input[k] = NL /\ text[k] = NL

====
